---- MODULE Spec2Model ----
(***************************************************************************)
(* kwark-sync: LearningBox -> Rise Up course synchronisation.              *)
(*                                                                         *)
(*   mapping_store.py    the JSON file  course id -> Rise Up step id       *)
(*   sync_courses.py     the batch orchestrator (main)                     *)
(*   webhook_handler.py  the Flask receiver of the SCORM callback          *)
(*   riseup_client.py    Target LMS client (token cache, upload)           *)
(*   learningbox_client.py  Source LMS client (catalog, export request)    *)
(*                                                                         *)
(* Python strings are sequences of one-character strings; a Python value   *)
(* that may be None, an int or a str is a record [t, n, s].                *)
(***************************************************************************)
EXTENDS Integers, Sequences, FiniteSets, TLC

\* ------------------------------------------------------------------ bounds
\* Number of distinct course ids of the catalog and of the store.
MaxId == 2
\* Longest zip form field, in characters.
MaxZipLen == 4
\* Longest catalog.
MaxCatalog == 2

\* Step ids the store API is called with.
MaxStep == 2
\* The runs of main made one after the other.
MaxRuns == 2
\* The last tick of the clock in the runs of the token cache.
MaxTime == 3

VARIABLES
    \* the mapping file, shared by the two processes
    file,
    \* the last two calls of the store API and their results
    op, prev,
    \* webhook receiver: the module's riseup_client, its token cache, the
    \* clock, the callback being delivered, the last answer
    riseup_client, hook_token, now, request, resp,
    \* orchestrator (main): position, catalog length, loop index, the snapshot
    \* existing_mapping, the three counters, the dict being saved by
    \* add_or_update_mapping, and the record of the descriptor in hand
    pc, catalog, idx, existing_mapping,
    success_count, fail_count, skip_count, mapping, cur,
    \* the environment: the callbacks the Source LMS still owes for accepted
    \* export requests; whether a read or write of the store has failed
    pending, faults,
    \* one call of sync_course_structure with what its calls did; the
    \* writers of the store, each inside its own add_or_update_mapping
    build, writers

storeTrace == <<op, prev>>
hookVars == <<riseup_client, hook_token, now, request, resp>>
counters == <<success_count, fail_count, skip_count>>
orchVars == <<pc, catalog, idx, existing_mapping, counters, mapping, cur>>
envVars == <<pending, faults>>
unitVars == <<build, writers>>
vars == <<file, storeTrace, hookVars, orchVars, envVars, unitVars>>

\* ----------------------------------------------------------- Python values
NoneV == [t |-> "none", n |-> 0, s |-> <<>>]
IntV(i) == [t |-> "int", n |-> i, s |-> <<>>]
StrV(q) == [t |-> "str", n |-> 0, s |-> q]

DigitChar(d) ==
    CASE d = 0 -> "0" [] d = 1 -> "1" [] d = 2 -> "2" [] d = 3 -> "3"
      [] d = 4 -> "4" [] d = 5 -> "5" [] d = 6 -> "6" [] d = 7 -> "7"
      [] d = 8 -> "8" [] OTHER -> "9"

Digits == {"0", "1", "2", "3", "4", "5", "6", "7", "8", "9"}

DigitVal(c) ==
    CASE c = "0" -> 0 [] c = "1" -> 1 [] c = "2" -> 2 [] c = "3" -> 3
      [] c = "4" -> 4 [] c = "5" -> 5 [] c = "6" -> 6 [] c = "7" -> 7
      [] c = "8" -> 8 [] OTHER -> 9

\* str(n) of a non-negative int: its decimal digits.
RECURSIVE DecStr(_)
DecStr(i) ==
    IF i < 10 THEN <<DigitChar(i)>>
    ELSE DecStr(i \div 10) \o <<DigitChar(i % 10)>>

\* str(x), the key normalisation of the store.
Str(x) ==
    CASE x.t = "int" -> DecStr(x.n)
      [] x.t = "str" -> x.s
      [] OTHER -> <<"N", "o", "n", "e">>

\* Python truthiness: `if not lb_id`, `if riseup_step_id`.
Truthy(x) ==
    CASE x.t = "int" -> x.n # 0
      [] x.t = "str" -> x.s # <<>>
      [] OTHER -> FALSE

RECURSIVE DigitsValue(_)
DigitsValue(q) ==
    IF q = <<>> THEN 0
    ELSE 10 * DigitsValue(SubSeq(q, 1, Len(q) - 1)) + DigitVal(q[Len(q)])

\* int(course_id): a str of digits parses, any other str raises ValueError,
\* None raises TypeError.
IntOf(x) ==
    CASE x.t = "int" -> [raised |-> "", n |-> x.n]
      [] x.t = "str" ->
            IF x.s # <<>> /\ \A k \in 1..Len(x.s) : x.s[k] \in Digits
            THEN [raised |-> "", n |-> DigitsValue(x.s)]
            ELSE [raised |-> "ValueError", n |-> 0]
      [] OTHER -> [raised |-> "TypeError", n |-> 0]

\* ----------------------------------------------------------- mapping store
EmptyMap == [k \in {} |-> 0]

\* The document json.load returns: a dict, or a value that is not a dict
\* (a list, null, a number, a string).
DictV(m) == [kind |-> "dict", map |-> m]
NonDictV == [kind |-> "nondict", map |-> EmptyMap]

\* What the path config.MAPPING_FILE_PATH holds.
\*   absent       no file
\*   object       a JSON object, map
\*   badjson      text json cannot parse (an empty or partly written file)
\*   undecodable  bytes that are no text in the file's encoding
\*   nonobject    a well-formed JSON document that is no object
FileAbsent == [kind |-> "absent", map |-> EmptyMap]
FileObject(m) == [kind |-> "object", map |-> m]
FileBadJson == [kind |-> "badjson", map |-> EmptyMap]
FileUndecodable == [kind |-> "undecodable", map |-> EmptyMap]
FileNonObject == [kind |-> "nonobject", map |-> EmptyMap]

ReadOutcomes == {"ok", "IOError"}
WriteOutcomes == {"ok", "open_IOError", "write_IOError"}

\* load_mapping(): rio is what open()/read() does when the file exists.
LoadMappingNoCatch(f, rio) ==
    CASE f.kind = "absent" -> [raised |-> "", val |-> DictV(EmptyMap)]
      [] rio = "IOError" -> [raised |-> "IOError", val |-> DictV(EmptyMap)]
      [] f.kind = "object" -> [raised |-> "", val |-> DictV(f.map)]
      [] f.kind = "nonobject" -> [raised |-> "", val |-> NonDictV]
      [] f.kind = "badjson" -> [raised |-> "JSONDecodeError", val |-> DictV(EmptyMap)]
      [] OTHER -> [raised |-> "UnicodeDecodeError", val |-> DictV(EmptyMap)]

LoadMapping(f, rio) ==
    CASE f.kind = "absent" -> [raised |-> "", val |-> DictV(EmptyMap)]
      [] rio = "IOError" -> [raised |-> "", val |-> DictV(EmptyMap)]
      [] f.kind = "object" -> [raised |-> "", val |-> DictV(f.map)]
      [] f.kind = "nonobject" -> [raised |-> "", val |-> NonDictV]
      [] f.kind = "badjson" -> [raised |-> "", val |-> DictV(EmptyMap)]
      [] OTHER -> [raised |-> "UnicodeDecodeError", val |-> DictV(EmptyMap)]

\* save_mapping, first half: open(path, 'w') truncates the file.
SaveOpen(f, wio) ==
    IF wio = "open_IOError" THEN f ELSE FileBadJson

\* save_mapping, second half: json.dump and the close that flushes it.
SaveDump(f, m, wio) ==
    CASE wio = "open_IOError" -> f
      [] wio = "write_IOError" -> FileBadJson
      [] OTHER -> FileObject(m)

SaveMapping(f, m, wio) == SaveDump(SaveOpen(f, wio), m, wio)

SaveRaisedUncaught(wio) == IF wio = "ok" THEN "" ELSE "IOError"

\* What escapes save_mapping: its `except IOError` (lines 24-25) prints the
\* error of open or of the write and returns.
SaveRaised(wio) == ""

\* mapping[key] = y on a dict.
SetItem(m, key, y) ==
    [k \in DOMAIN m \cup {key} |-> IF k = key THEN y ELSE m[k]]

UpsertKeyRaw(x) == IF x.t = "int" THEN <<"int">> \o DecStr(x.n) ELSE Str(x)

\* The key add_or_update_mapping writes: str(lb_course_id).
UpsertKey(x) == Str(x)

LookupKeyRaw(x) == IF x.t = "int" THEN <<"int">> \o DecStr(x.n) ELSE Str(x)

\* The key get_riseup_step_id reads: str(lb_course_id).
LookupKey(x) == Str(x)

\* add_or_update_mapping(x, y), uninterrupted: the file afterwards and the
\* exception that escapes, if any.
AddOrUpdateMapping(f, x, y, rio, wio) ==
    LET got == LoadMapping(f, rio) IN
    CASE got.raised # "" -> [file |-> f, raised |-> got.raised]
      [] got.val.kind # "dict" -> [file |-> f, raised |-> "TypeError"]
      [] OTHER ->
            [file |-> SaveMapping(f, SetItem(got.val.map, UpsertKey(x), y), wio),
             raised |-> SaveRaised(wio)]

\* get_riseup_step_id(x): mapping.get(str(x)); 0 stands for None.
GetRiseupStepId(f, x, rio) ==
    LET got == LoadMapping(f, rio) IN
    CASE got.raised # "" -> [raised |-> got.raised, step |-> 0]
      [] got.val.kind # "dict" -> [raised |-> "AttributeError", step |-> 0]
      [] LookupKey(x) \in DOMAIN got.val.map ->
            [raised |-> "", step |-> got.val.map[LookupKey(x)]]
      [] OTHER -> [raised |-> "", step |-> 0]

\* ------------------------------------------------------------ base64 decode
\* Characters of a zip form field: a base64 digit (value 16), the pad, an
\* ASCII character outside the base64 alphabet, a non-ASCII character.
B64Digit == "Q"
B64Pad == "="
AsciiJunk == "!"
NonAscii == "NONASCII"
ZipAlphabet == {B64Digit, B64Pad, AsciiJunk, NonAscii}

B64Val(c) == 16

\* binascii.a2b_base64 without strict mode, one character at a time:
\* st = [quad_pos, leftchar, pads, out, done].
A2bStep(st, c) ==
    CASE st.done -> st
      [] c = B64Pad ->
            IF st.quad_pos >= 2 /\ st.quad_pos + st.pads + 1 >= 4
            THEN [st EXCEPT !.done = TRUE, !.pads = st.pads + 1]
            ELSE IF st.quad_pos >= 2 THEN [st EXCEPT !.pads = st.pads + 1]
            ELSE st
      [] c # B64Digit -> st
      [] st.quad_pos = 0 ->
            [st EXCEPT !.pads = 0, !.quad_pos = 1, !.leftchar = B64Val(c)]
      [] st.quad_pos = 1 ->
            [st EXCEPT !.pads = 0, !.quad_pos = 2,
                       !.out = Append(st.out, (st.leftchar * 4 + B64Val(c) \div 16) % 256),
                       !.leftchar = B64Val(c) % 16]
      [] st.quad_pos = 2 ->
            [st EXCEPT !.pads = 0, !.quad_pos = 3,
                       !.out = Append(st.out, (st.leftchar * 16 + B64Val(c) \div 4) % 256),
                       !.leftchar = B64Val(c) % 4]
      [] OTHER ->
            [st EXCEPT !.pads = 0, !.quad_pos = 0,
                       !.out = Append(st.out, (st.leftchar * 64 + B64Val(c)) % 256),
                       !.leftchar = 0]

RECURSIVE A2bRun(_, _)
A2bRun(st, q) ==
    IF q = <<>> THEN st ELSE A2bRun(A2bStep(st, Head(q)), Tail(q))

\* base64.b64decode(s) of a str, validate=False: a non-ASCII character raises
\* ValueError, characters outside the alphabet are discarded, and only a
\* group left incomplete raises binascii.Error.
B64Decode(q) ==
    LET st == A2bRun([quad_pos |-> 0, leftchar |-> 0, pads |-> 0,
                      out |-> <<>>, done |-> FALSE], q)
    IN  CASE \E k \in 1..Len(q) : q[k] = NonAscii ->
                [raised |-> "ValueError", bytes |-> <<>>]
          [] ~st.done /\ st.quad_pos # 0 ->
                [raised |-> "binascii.Error", bytes |-> <<>>]
          [] OTHER -> [raised |-> "", bytes |-> st.out]

\* ------------------------------------------------------- Rise Up client
\* The client's token cache: access_token "" is None.
NewClient == [access_token |-> "", token_expiry |-> 0]

\* The safety margin subtracted from expires_in.
TokenMargin == 60

\* What the token endpoint does: a token with expires_in, a RequestException
\* (connection error, 4xx/5xx), or a JSON body that lacks a field.
TokenOutcomes ==
    {[kind |-> "ok", expires_in |-> e] : e \in TokenMargin..(TokenMargin + 2)}
      \cup {[kind |-> k, expires_in |-> 0] :
                k \in {"RequestException", "KeyError_access_token",
                       "KeyError_expires_in"}}

TokenNeededWhenAbsent(cl, t) == cl.access_token = ""

\* `if not self.access_token or time.time() >= self.token_expiry`
TokenNeeded(cl, t) == cl.access_token = "" \/ t >= cl.token_expiry

\* _ensure_token(): the cache afterwards, the exception raised, and whether
\* a token request was sent.
EnsureToken(cl, t, tok) ==
    IF TokenNeeded(cl, t)
    THEN CASE tok.kind = "ok" ->
                [cl |-> [access_token |-> "tok",
                         token_expiry |-> t + tok.expires_in - TokenMargin],
                 raised |-> "", requested |-> TRUE]
           [] tok.kind = "RequestException" ->
                [cl |-> [access_token |-> "", token_expiry |-> 0],
                 raised |-> "RequestException", requested |-> TRUE]
           [] tok.kind = "KeyError_access_token" ->
                [cl |-> cl, raised |-> "KeyError", requested |-> TRUE]
           [] OTHER ->
                [cl |-> [cl EXCEPT !.access_token = "tok"],
                 raised |-> "KeyError", requested |-> TRUE]
    ELSE [cl |-> cl, raised |-> "", requested |-> FALSE]

\* What the POST of the multipart upload does: a JSON answer, a
\* RequestException, or a 2xx answer whose body response.json() rejects
\* with a ValueError.
PostOutcomes == {"ok", "RequestException", "ValueError"}

\* upload_scorm_content(step_id, file_content): the cache afterwards, the
\* exception raised, the POSTs sent to /steps/content/<step_id>.
UploadScormContent(cl, t, step, bytes, tok, post) ==
    LET tk == EnsureToken(cl, t, tok) IN
    IF tk.raised # ""
    THEN [cl |-> tk.cl, raised |-> tk.raised, posts |-> <<>>,
          requested |-> tk.requested]
    ELSE [cl |-> tk.cl,
          raised |-> IF post = "ok" THEN "" ELSE post,
          posts |-> <<[step |-> step, bytes |-> bytes]>>,
          requested |-> tk.requested]

\* ------------------------------------------------------- webhook handler
\* parse_qs(raw_data).get(name): blank values are dropped, and a field with
\* no value left is absent (None, here the empty list).
ParseQsGet(values) == SelectSeq(values, LAMBDA v : v # <<>>)

MissingFieldsIdOnly(ids, zips) == ids = <<>>

\* `if not lb_course_id_list or not scorm_zip_b64_list`
MissingFields(ids, zips) == ids = <<>> \/ zips = <<>>

StepMissingNever(step) == FALSE

\* `if not riseup_step_id`
StepMissing(step) == step = 0

UploadFailureStatusAck(exc) == IF exc = "RequestException" THEN 200 ELSE 500

\* The status of the two except clauses around the upload: RequestException
\* and ConnectionError give 502, anything else the generic 500.
UploadFailureStatus(exc) ==
    IF exc \in {"RequestException", "ConnectionError"} THEN 502 ELSE 500

UploadScormContentRetry(cl, t, step, bytes, tok, post) ==
    LET first == UploadScormContent(cl, t, step, bytes, tok, post) IN
    IF first.raised = "RequestException"
    THEN [first EXCEPT !.posts = first.posts \o <<[step |-> step, bytes |-> bytes]>>]
    ELSE first

\* riseup_client.upload_scorm_content(riseup_step_id, scorm_file_like, filename)
\* as the handler calls it.
HandlerUpload(cl, t, step, bytes, tok, post) ==
    UploadScormContent(cl, t, step, bytes, tok, post)

NoAnswer ==
    [status |-> 0, exit |-> "none", lookups |-> 0, step |-> 0,
     uploads |-> <<>>, posts |-> <<>>, upraised |-> "", tokens |-> 0]

FirstRejectionDecodeFirst(missing, undecodable) ==
    CASE undecodable -> "InvalidEncoding"
      [] missing -> "MappingNotFound"
      [] OTHER -> ""

\* The two early returns between the parse and the upload, in the order the
\* handler reaches them: the lookup and its `if not riseup_step_id` (lines
\* 62-66), then the decode and its except clause (lines 71-76).
FirstRejection(missing, undecodable) ==
    CASE missing -> "MappingNotFound"
      [] undecodable -> "InvalidEncoding"
      [] OTHER -> ""

OuterExceptReraises(r) == [r EXCEPT !.status = 0, !.exit = "Escaped"]

\* `except Exception` around the whole pipeline (lines 92-94): the answer to
\* an exception that no inner clause caught.
OuterExcept(r) == [r EXCEPT !.status = 500, !.exit = "Unhandled"]

\* handle_learningbox_webhook(): rc is the module's riseup_client, body the
\* form fields [ids, zips] as sent, rio/tok/post what the file read, the token
\* endpoint and the upload POST do.  The answer records the status, the exit
\* taken, the store lookups made, the calls of upload_scorm_content, and the
\* POSTs these sent.
HandleLearningboxWebhook(rc, f, cl, t, body, rio, tok, post) ==
    LET ids == ParseQsGet(body.ids)
        zips == ParseQsGet(body.zips)
        base == OuterExcept(NoAnswer)
    IN
    IF rc = "None"
    THEN [cl |-> cl,
          resp |-> [NoAnswer EXCEPT !.status = 500, !.exit = "NotConfigured"]]
    ELSE IF MissingFields(ids, zips)
    THEN [cl |-> cl,
          resp |-> [base EXCEPT !.status = 400, !.exit = "MalformedRequest"]]
    ELSE IF ids = <<>> \/ zips = <<>>
    THEN [cl |-> cl, resp |-> base]
    ELSE
    LET got == GetRiseupStepId(f, StrV(ids[1]), rio)
        dec == B64Decode(zips[1])
        up == HandlerUpload(cl, t, got.step, dec.bytes, tok, post)
        found == [base EXCEPT !.lookups = 1, !.step = got.step]
        rejection == FirstRejection(StepMissing(got.step),
                                    dec.raised = "binascii.Error")
    IN
    CASE got.raised # "" ->
            [cl |-> cl, resp |-> [base EXCEPT !.lookups = 1]]
      [] rejection = "MappingNotFound" ->
            [cl |-> cl,
             resp |-> [found EXCEPT !.status = 200, !.exit = "MappingNotFound"]]
      [] rejection = "InvalidEncoding" ->
            [cl |-> cl,
             resp |-> [found EXCEPT !.status = 400, !.exit = "InvalidEncoding"]]
      [] dec.raised # "" ->
            [cl |-> cl, resp |-> found]
      [] OTHER ->
            [cl |-> up.cl,
             resp |-> [found EXCEPT
                !.uploads = <<[step |-> got.step, bytes |-> dec.bytes]>>,
                !.posts = up.posts,
                !.upraised = up.raised,
                !.tokens = IF up.requested THEN 1 ELSE 0,
                !.status = IF up.raised = "" THEN 200
                           ELSE UploadFailureStatus(up.raised),
                !.exit = CASE up.raised = "" -> "Uploaded"
                           [] up.raised \in {"RequestException", "ConnectionError"}
                                -> "UpstreamUploadFailure"
                           [] OTHER -> base.exit]]

\* ------------------------------------------------------------ input sets
\* Course ids: 1, 10, 19, ...
CourseIds == {9 * i - 8 : i \in 1..MaxId}
CourseKeys == {DecStr(i) : i \in CourseIds}
\* A course id as the catalog or a caller gives it: an int or its decimal
\* string.
IdForms(i) == {IntV(i), StrV(DecStr(i))}
IdInputs == UNION {IdForms(i) : i \in CourseIds}
StepIds == 1..MaxStep

Mappings == UNION {[ks -> StepIds] : ks \in SUBSET CourseKeys}
StoreFiles ==
    {FileAbsent, FileBadJson, FileUndecodable, FileNonObject}
      \cup {FileObject(m) : m \in Mappings}

NoOp == [name |-> "none", x |-> NoneV, y |-> 0, rio |-> "ok", wio |-> "ok",
         raised |-> "", ret |-> DictV(EmptyMap), step |-> 0]

HookIdle ==
    /\ riseup_client = "unset"
    /\ hook_token = NewClient
    /\ now = 0
    /\ request = [ids |-> <<>>, zips |-> <<>>]
    /\ resp = NoAnswer

\* What is kept of the call before the last: an upsert that returned and
\* whose read and write both worked, with its arguments; nothing else.
Nominal(o) == o.raised = "" /\ o.rio = "ok" /\ o.wio = "ok"
Earlier(o) ==
    IF o.name = "upsert" /\ Nominal(o)
    THEN [name |-> "upsert", x |-> o.x, y |-> o.y]
    ELSE [name |-> "other", x |-> NoneV, y |-> 0]

StoreIdle == op = NoOp /\ prev = Earlier(NoOp)

\* The record of one descriptor: its index and id, the Target LMS calls made
\* for it, the step id built, whether add_or_update_mapping and the export
\* request were called, and how it was counted.
NoCur ==
    [idx |-> 0, id |-> NoneV, calls |-> <<>>, step |-> 0, upserted |-> FALSE,
     write |-> "", saved |-> FALSE, exported |-> <<>>, result |-> ""]

\* No call of sync_course_structure is under study and no writer exists.
NoBuild ==
    [given |-> [course |-> "", img |-> "", ban |-> "", module |-> "", step |-> ""],
     calls |-> <<>>, ret |-> 0, raised |-> ""]
UnitIdle == build = NoBuild /\ writers = <<>>

OrchIdle ==
    /\ pc = "idle"
    /\ catalog = 0
    /\ idx = 0
    /\ existing_mapping = DictV(EmptyMap)
    /\ success_count = 0
    /\ fail_count = 0
    /\ skip_count = 0
    /\ mapping = EmptyMap
    /\ cur = NoCur
    /\ pending = {}
    /\ faults = FALSE

\* --------------------------------------------- SpecStore: the store's API
InitStore ==
    /\ file \in StoreFiles
    /\ StoreIdle
    /\ HookIdle
    /\ OrchIdle
    /\ UnitIdle

\* load_mapping()
StoreLoad ==
    \E rio \in ReadOutcomes :
        LET got == LoadMapping(file, rio) IN
        /\ op' = [NoOp EXCEPT !.name = "load", !.rio = rio,
                              !.raised = got.raised, !.ret = got.val]
        /\ prev' = Earlier(op)
        /\ UNCHANGED <<file, hookVars, orchVars, envVars, unitVars>>

\* add_or_update_mapping(x, y)
StoreUpsert ==
    \E x \in IdInputs, y \in StepIds, rio \in ReadOutcomes, wio \in WriteOutcomes :
        LET done == AddOrUpdateMapping(file, x, y, rio, wio) IN
        /\ file' = done.file
        /\ op' = [NoOp EXCEPT !.name = "upsert", !.x = x, !.y = y, !.rio = rio,
                              !.wio = wio, !.raised = done.raised]
        /\ prev' = Earlier(op)
        /\ UNCHANGED <<hookVars, orchVars, envVars, unitVars>>

\* get_riseup_step_id(x)
StoreGet ==
    \E x \in IdInputs, rio \in ReadOutcomes :
        LET got == GetRiseupStepId(file, x, rio) IN
        /\ op' = [NoOp EXCEPT !.name = "get", !.x = x, !.rio = rio,
                              !.raised = got.raised, !.step = got.step]
        /\ prev' = Earlier(op)
        /\ UNCHANGED <<file, hookVars, orchVars, envVars, unitVars>>

NextStore == StoreLoad \/ StoreUpsert \/ StoreGet

SpecStore == InitStore /\ [][NextStore]_vars

\* C2: an upsert add_or_update_mapping(x, y) that returned, its read and
\* write of the file having worked, followed by get_riseup_step_id(x2) whose
\* read worked, where x and x2 are the same course id as an int or as its
\* decimal string in either call, makes the get return y.
SameCourse(a, b) == \E i \in CourseIds : a \in IdForms(i) /\ b \in IdForms(i)

C2_UpsertThenGet ==
    (/\ op.name = "get"
     /\ prev.name = "upsert"
     /\ op.rio = "ok"
     /\ SameCourse(prev.x, op.x))
        => (op.raised = "" /\ op.step = prev.y)

C2_Witness ==
    /\ op.name = "get"
    /\ prev.name = "upsert"
    /\ op.rio = "ok"
    /\ prev.x.t = "int"
    /\ op.x.t = "str"
    /\ SameCourse(prev.x, op.x)
    /\ op.step = prev.y

\* C3: load_mapping() on a store that is absent, unreadable (the read fails)
\* or malformed (text json rejects, or bytes that are no text) returns the
\* empty mapping and raises nothing.
C3_LoadNeverRaises ==
    (/\ op.name = "load"
     /\ \/ file.kind \in {"absent", "badjson", "undecodable"}
        \/ op.rio = "IOError")
        => (op.raised = "" /\ op.ret = DictV(EmptyMap))

\* ------------------------------------- SpecHook: the receiver on its own
\* The zip form fields: every string of at most MaxZipLen characters.
RECURSIVE StringsUpTo(_, _)
StringsUpTo(alphabet, len) ==
    IF len = 0 THEN {<<>>}
    ELSE LET shorter == StringsUpTo(alphabet, len - 1) IN
         shorter \cup {Append(q, c) : q \in shorter, c \in alphabet}

ZipStrings == StringsUpTo(ZipAlphabet, MaxZipLen)

\* A callback body: the values sent for modules[0][id] and modules[0][zip]
\* (none, a blank one, or one value).
IdFields == {<<>>, << <<>> >>} \cup {<<k>> : k \in CourseKeys}
ZipFields == {<<>>} \cup {<<z>> : z \in ZipStrings}

\* The step the store holds for a course key in the receiver's runs.
StepOfKey(k) == (DigitsValue(k) % MaxStep) + 1
FullMap == [k \in CourseKeys |-> StepOfKey(k)]
HookFiles ==
    {FileAbsent, FileBadJson, FileUndecodable, FileNonObject,
     FileObject(EmptyMap), FileObject(FullMap)}

InitHook ==
    /\ file \in HookFiles
    /\ StoreIdle
    /\ riseup_client = "unset"
    /\ hook_token = NewClient
    /\ now = 0
    /\ request \in [ids : IdFields, zips : ZipFields]
    /\ resp = NoAnswer
    /\ OrchIdle
    /\ UnitIdle

\* Import of webhook_handler: validate_config() raising ValueError leaves
\* riseup_client None, and the app serves requests all the same.
HookModuleLoad ==
    /\ riseup_client = "unset"
    /\ \E valid \in BOOLEAN :
          riseup_client' = IF valid THEN "client" ELSE "None"
    /\ UNCHANGED <<file, storeTrace, hook_token, now, request, resp, orchVars, envVars, unitVars>>

\* One delivery of the callback (the sender may deliver it again).
HookDeliver ==
    /\ riseup_client # "unset"
    /\ \E rio \in ReadOutcomes, tok \in TokenOutcomes, post \in PostOutcomes :
          LET r == HandleLearningboxWebhook(riseup_client, file, hook_token,
                                            now, request, rio, tok, post) IN
          /\ resp' = r.resp
          /\ hook_token' = r.cl
    /\ UNCHANGED <<file, storeTrace, riseup_client, now, request, orchVars, envVars, unitVars>>

NextHook == HookModuleLoad \/ HookDeliver

SpecHook == InitHook /\ [][NextHook]_vars

\* What the claims about one delivery read off the state.
FieldPresent(values) == \E k \in 1..Len(values) : values[k] # <<>>
BothFields == FieldPresent(request.ids) /\ FieldPresent(request.zips)
ReqKey == request.ids[1]
ReqZip == request.zips[1]
HasEntry(f, key) == f.kind = "object" /\ key \in DOMAIN f.map
\* The receiver is configured and has answered the callback.
Answered == riseup_client = "client" /\ resp.exit # "none"
Is2xx(st) == st \in 200..299
Is4xx(st) == st \in 400..499
Is5xx(st) == st \in 500..599

\* Canonical base64: groups of four characters of the alphabet, padded only
\* at the end of the last group.
ValidBase64(q) ==
    /\ Len(q) % 4 = 0
    /\ \A k \in 1..Len(q) : q[k] \in {B64Digit, B64Pad}
    /\ \A k \in 1..Len(q) : q[k] = B64Pad =>
          /\ k >= Len(q) - 1
          /\ \A j \in k..Len(q) : q[j] = B64Pad

\* C6: a callback with both fields for a course id the store holds no entry
\* for (no file, a file json cannot parse, or an object without the key) is
\* answered 2xx "Mapping not found", with no upload call.
C6_AckUnmapped ==
    (/\ Answered
     /\ BothFields
     /\ file.kind \in {"absent", "badjson", "object"}
     /\ ~HasEntry(file, ReqKey))
        => /\ Is2xx(resp.status)
           /\ resp.exit = "MappingNotFound"
           /\ resp.uploads = <<>>
           /\ resp.posts = <<>>

C6_Witness ==
    /\ Answered
    /\ BothFields
    /\ file = FileObject(EmptyMap)
    /\ B64Decode(ReqZip).raised = ""
    /\ resp.exit = "MappingNotFound"
    /\ resp.status = 200

\* C7: a callback whose course id the lookup resolves to step s, and whose
\* zip field b64decode accepts, makes exactly one call of
\* upload_scorm_content, for step s with the decoded bytes; that call sends
\* at most one POST, to step s with these bytes, and when it returns the
\* answer is 2xx.
C7_OneUploadToStep ==
    (/\ Answered
     /\ BothFields
     /\ resp.step # 0
     /\ B64Decode(ReqZip).raised = "")
        => /\ HasEntry(file, ReqKey)
           /\ resp.step = file.map[ReqKey]
           /\ resp.uploads = <<[step |-> file.map[ReqKey],
                                bytes |-> B64Decode(ReqZip).bytes]>>
           /\ Len(resp.posts) <= 1
           /\ \A k \in 1..Len(resp.posts) : resp.posts[k] = resp.uploads[1]
           /\ resp.upraised = "" =>
                 /\ Is2xx(resp.status)
                 /\ resp.exit = "Uploaded"
                 /\ Len(resp.posts) = 1

C7_Witness ==
    /\ Answered
    /\ BothFields
    /\ HasEntry(file, ReqKey)
    /\ ReqZip = <<B64Digit, B64Digit, B64Pad, B64Pad>>
    /\ resp.uploads = <<[step |-> file.map[ReqKey], bytes |-> <<65>>]>>
    /\ resp.posts = resp.uploads
    /\ resp.status = 200

\* C8: when the call of upload_scorm_content fails, be it the token request
\* inside it or the POST, the answer is 5xx.
C8_UploadFailureIs5xx ==
    (Answered /\ resp.uploads # <<>> /\ resp.upraised # "")
        => Is5xx(resp.status)

\* The token request inside the upload call failed: no POST was sent.
C8_Witness ==
    /\ Answered
    /\ resp.uploads # <<>>
    /\ resp.upraised = "RequestException"
    /\ resp.posts = <<>>
    /\ resp.status = 502

\* C9: a callback in which modules[0][id] or modules[0][zip] is absent is
\* answered 4xx, with no store lookup and no upload call.
C9_MissingFieldIs4xx ==
    (Answered /\ ~BothFields)
        => /\ Is4xx(resp.status)
           /\ resp.lookups = 0
           /\ resp.uploads = <<>>
           /\ resp.posts = <<>>

C9_Witness ==
    /\ Answered
    /\ FieldPresent(request.ids)
    /\ request.zips = <<>>
    /\ HasEntry(file, ReqKey)
    /\ resp.status = 400

\* C10: for a callback whose course id is mapped, a zip field that is not
\* valid base64 is answered 4xx by the InvalidEncoding exit and uploads
\* nothing.
C10_InvalidBase64Rejected ==
    (/\ Answered
     /\ BothFields
     /\ resp.step # 0
     /\ \A k \in 1..Len(ReqZip) : ReqZip[k] # NonAscii
     /\ ~ValidBase64(ReqZip))
        => /\ Is4xx(resp.status)
           /\ resp.exit = "InvalidEncoding"
           /\ resp.uploads = <<>>

\* ------------------------- Spec: one orchestrator run and its callbacks
FirstKey == DecStr(9 * 1 - 8)

\* A catalog descriptor's id: missing, an int, the decimal string of one, or
\* a string that is no number.
NotANumber == StrV(<<"x">>)
CatalogIds == {NoneV, NotANumber, StrV(FirstKey)} \cup {IntV(i) : i \in CourseIds}
\* The catalog is held as its length; a descriptor is read when the loop
\* reaches it.
CatalogLens == 1..MaxCatalog

\* The id the Target LMS gives the step it creates for the idx-th
\* descriptor: a fresh one, apart from the steps already in the store.
StepIdOf(i) == 10 * i

\* The store before the run: none, one that maps the first course, one that
\* cannot be decoded, one that holds no object.
OneMap == [k \in {FirstKey} |-> StepOfKey(k)]
RunFiles == {FileAbsent, FileObject(OneMap), FileUndecodable, FileNonObject}

\* The callback body the Source LMS sends for an export: the course id as a
\* form string and the package in base64.
CallbackZip == <<B64Digit, B64Digit, B64Pad, B64Pad>>
Callback(k) == [ids |-> <<k>>, zips |-> <<CallbackZip>>]

Init ==
    /\ file \in RunFiles
    /\ StoreIdle
    /\ riseup_client = "client"
    /\ hook_token = NewClient
    /\ now = 0
    /\ request = [ids |-> <<>>, zips |-> <<>>]
    /\ resp = NoAnswer
    /\ pc = "start"
    /\ catalog = 0
    /\ idx = 0
    /\ existing_mapping = DictV(EmptyMap)
    /\ success_count = 0
    /\ fail_count = 0
    /\ skip_count = 0
    /\ mapping = EmptyMap
    /\ cur = NoCur
    /\ pending = {}
    /\ faults = FALSE
    /\ UnitIdle

\* Lines 143-152: validate_config, the two clients, the webhook url; a
\* ValueError or RequestException here ends main.
MainStart ==
    /\ pc = "start"
    /\ \E valid \in BOOLEAN : pc' = IF valid THEN "load" ELSE "aborted"
    /\ UNCHANGED <<file, storeTrace, hookVars, catalog, idx, existing_mapping,
                   counters, mapping, cur, envVars, unitVars>>

ExistingMappingEmpty(got) == DictV(EmptyMap)

\* `existing_mapping = mapping_store.load_mapping()`: the snapshot of the run
\* is what load_mapping returned.
ExistingMapping(got) == got.val

\* Lines 156-157: existing_mapping = load_mapping(); len(existing_mapping).
\* An exception of load_mapping, or len() of a document that has no length,
\* escapes main.
MainLoadMapping ==
    /\ pc = "load"
    /\ \E rio \in ReadOutcomes, sized \in BOOLEAN :
          LET got == LoadMapping(file, rio) IN
          /\ faults' = (faults \/ rio # "ok")
          /\ IF got.raised # "" \/ (got.val.kind # "dict" /\ ~sized)
             THEN pc' = "crashed" /\ UNCHANGED existing_mapping
             ELSE pc' = "catalog" /\ existing_mapping' = ExistingMapping(got)
    /\ UNCHANGED <<file, storeTrace, hookVars, catalog, idx, counters,
                   mapping, cur, pending, unitVars>>

\* Lines 159-168: get_catalog() raises the RequestException of the GET,
\* returns [] on a status that is not ok, or returns the courses; an empty
\* catalog ends main before the loop.
MainGetCatalog ==
    /\ pc = "catalog"
    /\ \/ /\ pc' = "crashed"
          /\ UNCHANGED <<catalog, idx>>
       \/ /\ pc' = "returned"
          /\ UNCHANGED <<catalog, idx>>
       \/ \E c \in CatalogLens :
             /\ catalog' = c
             /\ idx' = 1
             /\ pc' = "loop"
    /\ UNCHANGED <<file, storeTrace, hookVars, existing_mapping, counters,
                   mapping, cur, envVars, unitVars>>

FinishUncounted(result, c) ==
    /\ UNCHANGED counters
    /\ cur' = [c EXCEPT !.result = result]
    /\ idx' = idx + 1
    /\ pc' = "loop"

\* The descriptor in hand is counted and the loop goes on.
Finish(result, c) ==
    /\ success_count' = success_count + (IF result = "success" THEN 1 ELSE 0)
    /\ fail_count' = fail_count + (IF result = "failed" THEN 1 ELSE 0)
    /\ skip_count' = skip_count + (IF result = "skipped" THEN 1 ELSE 0)
    /\ cur' = [c EXCEPT !.result = result]
    /\ idx' = idx + 1
    /\ pc' = "loop"

AlreadyMappedNever(em, id) == FALSE

AlreadyMappedLive(em, id) ==
    Str(id) \in DOMAIN em.map \/ HasEntry(file, Str(id))

\* `str(lb_id) in existing_mapping` on the snapshot dict.
AlreadyMapped(em, id) == Str(id) \in DOMAIN em.map

\* Lines 170-184 and 209-213: the loop head with the two early `continue`s,
\* and the tally after the last descriptor.  On a snapshot that is a list,
\* `in` is membership in the list.
MainLoop ==
    /\ pc = "loop"
    /\ IF idx > catalog
       THEN pc' = "done" /\ UNCHANGED <<idx, counters, cur>>
       ELSE \E id \in CatalogIds, listed \in BOOLEAN :
               LET c0 == [NoCur EXCEPT !.idx = idx, !.id = id] IN
               CASE ~Truthy(id) -> Finish("failed", c0)
                 [] existing_mapping.kind = "dict"
                       /\ AlreadyMapped(existing_mapping, id) ->
                       Finish("skipped", c0)
                 [] existing_mapping.kind # "dict" /\ listed ->
                       Finish("skipped", c0)
                 [] OTHER ->
                       /\ cur' = c0
                       /\ pc' = "sync"
                       /\ UNCHANGED <<idx, counters>>
    /\ UNCHANGED <<file, storeTrace, hookVars, catalog, existing_mapping,
                   mapping, envVars, unitVars>>

\* What a creation call of the Target LMS client does: an object with an id,
\* an object without one (or None), a RequestException/ConnectionError, or
\* another exception.
CreateOutcomes == {"id", "noid", "RequestException", "Exception"}

\* What the image or the banner does; every failure is caught (lines 84-104).
AuxOutcomes == {"download_failed", "uploaded", "upload_failed"}

\* The creation calls of sync_course_structure, in order.
BuildCalls == <<"create_course", "create_module", "create_scorm_step">>

BuildPrefixAll(course, module) == BuildCalls

\* The creation calls made: each one is made only if the one before it gave
\* an id (lines 79-82, 115-118).
BuildPrefix(course, module) ==
    IF course # "id" THEN SubSeq(BuildCalls, 1, 1)
    ELSE IF module # "id" THEN SubSeq(BuildCalls, 1, 2)
    ELSE BuildCalls

AuxAbortsOnFailure(out) == out # "uploaded"

\* Whether what the image or the banner did ends the build: download_content
\* returns (None, None) on every exception (lines 41-46) and each upload has
\* its own try/except Exception (lines 87-93, 97-103).
AuxAborts(out) == FALSE

\* The calls made for the image or the banner: the download, and the upload
\* when the download gave content.
AuxCalls(kind, out) ==
    IF out = "download_failed"
    THEN <<"download_" \o kind>>
    ELSE <<"download_" \o kind, "upload_course_" \o kind>>

\* Lines 84-104: the image, then the banner.
AuxTrace(img, ban) ==
    AuxCalls("image", img)
        \o (IF AuxAborts(img) THEN <<>> ELSE AuxCalls("banner", ban))

\* sync_course_structure (lines 67-140) given what each call does: the
\* calls made in order, the value returned (0 for None) and the exception
\* that escapes; stepid is the id the Target LMS gives the new step.
SyncCourseStructureOf(course, img, ban, module, step, stepid) ==
    LET creation == BuildPrefix(course, module)
        aborted == course = "id" /\ (AuxAborts(img) \/ AuxAborts(ban))
    IN
    [calls |-> CASE course # "id" -> creation
                 [] aborted -> SubSeq(creation, 1, 1) \o AuxTrace(img, ban)
                 [] OTHER -> SubSeq(creation, 1, 1) \o AuxTrace(img, ban)
                                \o SubSeq(creation, 2, Len(creation)),
     ret |-> IF course = "id" /\ module = "id" /\ step = "id" /\ ~aborted
             THEN stepid ELSE 0,
     raised |-> ""]

\* The creation calls among the calls made.
CreationCalls(calls) ==
    SelectSeq(calls, LAMBDA c : \E k \in 1..Len(BuildCalls) : c = BuildCalls[k])

StepIdAlways(ret) == TRUE

\* `if riseup_step_id:` on what sync_course_structure returned (0 is None).
StepIdTruthy(ret) == ret # 0

\* Lines 187-189, 202-204: main calls sync_course_structure, goes on to the
\* mapping with a step id and counts the descriptor as failed without one.
SyncCourseStructure ==
    /\ pc = "sync"
    /\ \E course \in CreateOutcomes, img \in AuxOutcomes, ban \in AuxOutcomes :
          \E module \in IF course = "id" THEN CreateOutcomes ELSE {"uncalled"} :
             \E step \in IF module = "id" THEN CreateOutcomes ELSE {"uncalled"} :
                LET b == SyncCourseStructureOf(course, img, ban, module, step,
                                               StepIdOf(idx))
                    c1 == [cur EXCEPT !.calls = CreationCalls(b.calls)]
                IN
                IF StepIdTruthy(b.ret)
                THEN /\ cur' = [c1 EXCEPT !.step = b.ret]
                     /\ pc' = "upsert"
                     /\ UNCHANGED <<idx, counters>>
                ELSE Finish("failed", c1)
    /\ UNCHANGED <<file, storeTrace, hookVars, catalog, existing_mapping,
                   mapping, envVars, unitVars>>

\* ------------------------- SpecBuild: sync_course_structure on its own
InitBuild ==
    /\ file = FileAbsent
    /\ StoreIdle
    /\ HookIdle
    /\ OrchIdle
    /\ UnitIdle

\* One call of sync_course_structure, for every outcome of its calls.
BuildRun ==
    /\ \E course \in CreateOutcomes, img \in AuxOutcomes, ban \in AuxOutcomes,
          module \in CreateOutcomes, step \in CreateOutcomes :
          LET b == SyncCourseStructureOf(course, img, ban, module, step,
                                         StepIdOf(1)) IN
          build' = [given |-> [course |-> course, img |-> img, ban |-> ban,
                               module |-> module, step |-> step],
                    calls |-> b.calls, ret |-> b.ret, raised |-> b.raised]
    /\ UNCHANGED <<file, storeTrace, hookVars, orchVars, envVars, writers>>

NextBuild == BuildRun

SpecBuild == InitBuild /\ [][NextBuild]_vars

\* Line 191, add_or_update_mapping lines 29-30 and save_mapping line 22: the
\* load, the new entry, and open(path, 'w').  What load_mapping raises, or
\* the TypeError of an item assignment on a document that is no dict,
\* escapes main; an IOError of open is caught in save_mapping.
UpsertOpen ==
    /\ pc = "upsert"
    /\ \E rio \in ReadOutcomes, wio \in {"ok", "open_IOError"} :
          LET got == LoadMapping(file, rio) IN
          IF got.raised # "" \/ got.val.kind # "dict"
          THEN /\ pc' = "crashed"
               /\ faults' = (faults \/ rio # "ok")
               /\ cur' = [cur EXCEPT !.upserted = TRUE]
               /\ UNCHANGED <<file, mapping>>
          ELSE /\ mapping' = SetItem(got.val.map, UpsertKey(cur.id), cur.step)
               /\ file' = SaveOpen(file, wio)
               /\ faults' = (faults \/ rio # "ok" \/ wio # "ok")
               /\ cur' = [cur EXCEPT !.upserted = TRUE,
                                     !.write = IF wio = "ok" THEN "" ELSE wio]
               /\ pc' = CASE wio = "ok" -> "save_dump"
                           [] SaveRaised(wio) = "" -> "export"
                           [] OTHER -> "crashed"
    /\ UNCHANGED <<storeTrace, hookVars, catalog, idx, existing_mapping,
                   counters, pending, unitVars>>

\* save_mapping lines 23-25: json.dump and the close.
SaveDumpStep ==
    /\ pc = "save_dump"
    /\ \E wio \in {"ok", "write_IOError"} :
          /\ file' = SaveDump(file, mapping, wio)
          /\ cur' = [cur EXCEPT !.saved = (wio = "ok"), !.write = wio]
          /\ faults' = (faults \/ wio # "ok")
          /\ pc' = IF SaveRaised(wio) = "" THEN "export" ELSE "crashed"
    /\ UNCHANGED <<storeTrace, hookVars, catalog, idx, existing_mapping,
                   counters, mapping, pending, unitVars>>

\* What the POST of the export request does: a JSON answer, a 204 (None), or
\* a RequestException.
ExportOutcomes == {"json", "no_content", "RequestException"}

ExportCountsAsSuccess(out) == TRUE

\* `if export_result is not None`
ExportCounts(out) == out = "json"

\* Lines 194-200, request_scorm_export: int(course_id) raises outside the
\* try and escapes main; a request the Source LMS accepted will be answered
\* by a callback carrying the id as a form string.
ExportRequest ==
    /\ pc = "export"
    /\ LET sent == IntOf(cur.id) IN
       IF sent.raised # ""
       THEN /\ pc' = "crashed"
            /\ UNCHANGED <<idx, counters, cur, pending>>
       ELSE \E out \in ExportOutcomes :
               /\ Finish(IF ExportCounts(out) THEN "success" ELSE "failed",
                         [cur EXCEPT !.exported =
                             <<[course_id |-> sent.n, answer |-> out]>>])
               /\ pending' = IF out = "RequestException" THEN pending
                             ELSE pending \cup {DecStr(sent.n)}
    /\ UNCHANGED <<file, storeTrace, hookVars, catalog, existing_mapping,
                   mapping, faults, unitVars>>

\* The Source LMS delivers the callback of an accepted export request.
Deliver ==
    /\ riseup_client # "unset"
    /\ \E k \in pending, rio \in ReadOutcomes, tok \in TokenOutcomes,
          post \in PostOutcomes :
          LET r == HandleLearningboxWebhook(riseup_client, file, hook_token,
                                            now, Callback(k), rio, tok, post) IN
          /\ request' = Callback(k)
          /\ resp' = r.resp
          /\ hook_token' = r.cl
          /\ pending' = pending \ {k}
          /\ faults' = (faults \/ rio # "ok")
    /\ UNCHANGED <<file, storeTrace, riseup_client, now, orchVars, unitVars>>

\* SpecSync: the orchestrator run alone.
NextSync ==
    \/ MainStart
    \/ MainLoadMapping
    \/ MainGetCatalog
    \/ MainLoop
    \/ SyncCourseStructure
    \/ UpsertOpen
    \/ SaveDumpStep
    \/ ExportRequest

SpecSync == Init /\ [][NextSync]_vars

\* Another process (a second run, an operator) upserts the entry of the
\* first course in the shared store while the run is under way.
OtherUpsert ==
    /\ pc \notin {"start", "aborted"}
    /\ file' = AddOrUpdateMapping(file, StrV(FirstKey), StepOfKey(FirstKey),
                                  "ok", "ok").file
    /\ UNCHANGED <<storeTrace, hookVars, orchVars, envVars, unitVars>>

\* SpecShared: the run with another writer of the store beside it.
NextShared == NextSync \/ OtherUpsert

SpecShared == Init /\ [][NextShared]_vars

\* FairSync: the run keeps going as long as it has a step to take.
FairSync == SpecSync /\ WF_vars(NextSync)

\* Spec: the run together with the receiver answering its callbacks.
Next == NextSync \/ Deliver

Spec == Init /\ [][Next]_vars

\* ------------------------------------------------ claims on the run
\* The steps this run can have created.
RunSteps == {StepIdOf(i) : i \in 1..MaxCatalog}

\* The entry of the descriptor in hand is in the store with the step built.
Persisted(f, c) == HasEntry(f, UpsertKey(c.id)) /\ f.map[UpsertKey(c.id)] = c.step

\* The export request of the descriptor in hand was sent and got no JSON
\* answer: request_scorm_export returned None.
ExportFailed(c) == c.exported # <<>> /\ c.exported[1].answer # "json"

\* C1: a callback for a course whose export this run has requested, carrying
\* the course id as a form string, finds a mapping entry (it never takes the
\* MappingNotFound exit) and its upload is addressed to a step this run
\* created; stated for runs in which no read or write of the store failed.
C1_HandoffFindsEntry ==
    (resp.exit # "none" /\ ~faults) =>
        /\ resp.exit # "MappingNotFound"
        /\ \A i \in 1..Len(resp.uploads) : resp.uploads[i].step \in RunSteps

\* C4: for a descriptor whose build gave a step id, add_or_update_mapping is
\* called before the export request is sent; and when the request that was
\* sent fails, the step leaves the store as it was, the entry that the save
\* wrote is still there with the step built, and the descriptor is counted
\* as failed and not as successful.
C4_PersistedBeforeExport ==
    [][/\ (pc = "export" => cur.upserted /\ cur.step # 0)
       /\ (pc = "export" /\ ExportFailed(cur') =>
              /\ file' = file
              /\ (cur.saved => Persisted(file', cur'))
              /\ cur'.result = "failed"
              /\ fail_count' = fail_count + 1
              /\ success_count' = success_count
              /\ skip_count' = skip_count)]_vars

\* A descriptor with a step id was saved, its export request was sent and
\* failed, the entry is in the store and the descriptor was counted failed.
C4_Witness ==
    /\ ExportFailed(cur)
    /\ cur.step # 0
    /\ cur.saved
    /\ Persisted(file, cur)
    /\ cur.result = "failed"
    /\ fail_count >= 1

Tallied == success_count + skip_count + fail_count

\* C11: once the loop has started, no exception raised while a descriptor
\* is processed (hierarchy creation, mapping upsert, export request and its
\* id conversion) escapes main: the loop goes on to the next descriptor.
C11_LoopContinues == (catalog > 0) => (pc # "crashed")

\* C12: once the configuration has validated, the run eventually reaches
\* the final tally, whatever the catalog fetch and the per-course calls
\* return or raise.
C12_ReachesTally == (pc = "load") ~> (pc = "done")

\* C13: every step that finishes a descriptor adds exactly 1 to exactly one
\* of the three counters and no other step changes a counter; after k
\* descriptors the counters sum to k, and at the tally they sum to the
\* length of the catalog.
C13_OneCountPerDescriptor ==
    [][/\ \/ /\ idx' = idx + 1
             /\ idx >= 1
             /\ \/ /\ success_count' = success_count + 1
                   /\ skip_count' = skip_count /\ fail_count' = fail_count
                \/ /\ skip_count' = skip_count + 1
                   /\ success_count' = success_count /\ fail_count' = fail_count
                \/ /\ fail_count' = fail_count + 1
                   /\ success_count' = success_count /\ skip_count' = skip_count
          \/ /\ (idx' = idx \/ idx = 0)
             /\ counters' = counters
       /\ (idx' >= 1 => Tallied' = idx' - 1)
       /\ (pc' = "done" => Tallied' = catalog')]_vars

\* A run over a full-length catalog has reached the tally with a course
\* counted as successful and another skipped or failed.
C13_Witness ==
    /\ pc = "done"
    /\ catalog = MaxCatalog
    /\ Tallied = catalog
    /\ success_count >= 1
    /\ skip_count + fail_count >= 1

\* C14: every delivery is answered with a status that is a success, a
\* client error or a server error, through one of the handler's exits; what
\* no specific exit handles (the mapping lookup raising, the decoder or the
\* upload raising something that is no request exception) gets the generic
\* 500; and after the answer the receiver takes the next delivery and
\* answers it, whatever the store, the token endpoint and the upload do.
C14_AlwaysAnswers ==
    (riseup_client # "unset" /\ resp # NoAnswer) =>
        /\ Is2xx(resp.status) \/ Is4xx(resp.status) \/ Is5xx(resp.status)
        /\ resp.exit \in {"NotConfigured", "MalformedRequest", "MappingNotFound",
                          "InvalidEncoding", "Uploaded",
                          "UpstreamUploadFailure", "Unhandled"}
        /\ (resp.exit = "Unhandled" => resp.status = 500)
        /\ (resp.upraised \notin {"", "RequestException", "ConnectionError"}
               => resp.status = 500)
        /\ \A rio \in ReadOutcomes, tok \in TokenOutcomes, post \in PostOutcomes :
              HandleLearningboxWebhook(riseup_client, file, hook_token, now,
                                       request, rio, tok, post).resp.status # 0

\* The mapping lookup raised on a store that holds no object or no text, and
\* the delivery was answered with the generic 500.
C14_Witness ==
    /\ Answered
    /\ BothFields
    /\ file.kind \in {"undecodable", "nonobject"}
    /\ resp.lookups = 1
    /\ resp.exit = "Unhandled"
    /\ resp.status = 500

\* C15: a receiver whose configuration did not validate at startup does
\* not go on to accept and answer webhook requests.
C15_ConfigInvalidIsFatal == (riseup_client = "None") => (resp = NoAnswer)

\* The write of the descriptor in hand failed, at open or at the dump.
WriteFailed(c) == c.write \in {"open_IOError", "write_IOError"}

\* C16: a save_mapping whose open or write fails returns to main without
\* raising: the step that meets the failure goes on to the export request
\* and counts nothing; the export request is then sent (when the id converts)
\* and the descriptor is counted by the request's answer.
C16_SilentWriteFailure ==
    [][/\ (~WriteFailed(cur) /\ WriteFailed(cur') =>
              /\ pc' = "export"
              /\ counters' = counters
              /\ idx' = idx)
       /\ (pc = "export" /\ WriteFailed(cur) /\ IntOf(cur.id).raised = "" =>
              /\ pc' = "loop"
              /\ cur'.exported # <<>>
              /\ cur'.exported[1].course_id = IntOf(cur.id).n
              /\ cur'.result = IF cur'.exported[1].answer = "json"
                               THEN "success" ELSE "failed"
              /\ Tallied' = Tallied + 1
              /\ skip_count' = skip_count
              /\ success_count' =
                    success_count + (IF cur'.result = "success" THEN 1 ELSE 0))]_vars

\* The write failed, the export request was sent all the same and, being
\* answered, the descriptor was counted as successful.
C16_Witness ==
    /\ WriteFailed(cur)
    /\ ~Persisted(file, cur)
    /\ cur.exported # <<>>
    /\ cur.result = "success"
    /\ success_count >= 1

\* C17: the snapshot existing_mapping is loaded once, before the loop, and
\* never changes afterwards; a descriptor whose id is not a key of the
\* snapshot is never skipped, whatever the store holds by then (an entry of
\* this run for an earlier descriptor, or of another process); and the save
\* of a descriptor leaves its key mapped to the step just built, replacing
\* the step of an earlier descriptor with the same id.
C17_SkipUsesSnapshot ==
    [][/\ (pc \notin {"start", "load"} => existing_mapping' = existing_mapping)
       /\ (/\ pc = "loop"
           /\ cur'.idx = idx
           /\ existing_mapping.kind = "dict"
           /\ Truthy(cur'.id)
           /\ Str(cur'.id) \notin DOMAIN existing_mapping.map) =>
              /\ pc' = "sync"
              /\ counters' = counters
              /\ idx' = idx
       /\ (pc = "save_dump" /\ cur'.saved => Persisted(file', cur'))]_vars

\* The second descriptor has the id of the first, which this run has mapped
\* to the step it built; it is not in the snapshot and is being built again.
C17_Witness ==
    /\ pc = "sync"
    /\ cur.idx = 2
    /\ existing_mapping.kind = "dict"
    /\ Str(cur.id) \notin DOMAIN existing_mapping.map
    /\ HasEntry(file, Str(cur.id))
    /\ file.map[Str(cur.id)] = StepIdOf(1)

\* What the claims about one build read off the state.
Built == build # NoBuild
Called(name) == \E k \in 1..Len(build.calls) : build.calls[k] = name
Position(name) == CHOOSE k \in 1..Len(build.calls) : build.calls[k] = name

\* C18: the creation calls of one build are create_course, create_module,
\* create_scorm_step in that order, each at most once; create_module is
\* called only when create_course gave an id and create_scorm_step only when
\* create_module gave one; when a call gives no id or raises, the later
\* calls are not made and None is returned, nothing being raised; a step id
\* is returned only when the three calls were made and each gave an id.
C18_OrderedHierarchy ==
    Built =>
        LET made == CreationCalls(build.calls)
            g == build.given
        IN
        /\ Len(made) >= 1
        /\ made = SubSeq(BuildCalls, 1, Len(made))
        /\ (Len(made) >= 2 <=> g.course = "id")
        /\ (Len(made) = 3 <=> (g.course = "id" /\ g.module = "id"))
        /\ build.raised = ""
        /\ (build.ret # 0 <=>
               (g.course = "id" /\ g.module = "id" /\ g.step = "id"))
        /\ (build.ret # 0 => made = BuildCalls /\ build.ret = StepIdOf(1))

\* create_course gave an id, create_module raised: create_scorm_step was
\* not called and None was returned.
C18_Witness ==
    /\ Built
    /\ build.given.course = "id"
    /\ build.given.module = "RequestException"
    /\ CreationCalls(build.calls) = SubSeq(BuildCalls, 1, 2)
    /\ build.ret = 0
    /\ build.raised = ""

\* C19: once create_course has given an id, whatever the download and the
\* upload of the image and of the banner do, the banner is still downloaded
\* and, having content, uploaded, after the image; create_module is called
\* after them; and the value returned is the one the creation calls decide.
C19_AuxNeverAborts ==
    (Built /\ build.given.course = "id") =>
        /\ Called("download_image")
        /\ Called("download_banner")
        /\ (build.given.img # "download_failed" <=> Called("upload_course_image"))
        /\ (build.given.ban # "download_failed" <=> Called("upload_course_banner"))
        /\ Called("create_module")
        /\ Position("create_course") < Position("download_image")
        /\ Position("download_image") < Position("download_banner")
        /\ Position("download_banner") < Position("create_module")
        /\ (build.ret # 0 <=>
               (build.given.module = "id" /\ build.given.step = "id"))

\* The image upload failed; the banner was uploaded, the module created and
\* the step id returned.
C19_Witness ==
    /\ Built
    /\ build.given.course = "id"
    /\ build.given.img = "upload_failed"
    /\ build.given.ban = "uploaded"
    /\ Called("upload_course_image")
    /\ Called("upload_course_banner")
    /\ Called("create_module")
    /\ build.ret # 0

\* ---------------- SpecWriters: two uncoordinated callers of the upsert
\* Each writer is inside one add_or_update_mapping(key, step): ready, then
\* loaded (lines 29-30), then opened (save_mapping line 22), then done
\* (lines 23-25).  A writer keeps its own dict and the time of each step.
WriterIds == {1, 2}
WritableFiles == {FileAbsent, FileBadJson} \cup {FileObject(m) : m \in Mappings}
NewWriter(w, k) ==
    [pc |-> "ready", key |-> k, step |-> StepIdOf(w), mapping |-> EmptyMap,
     loaded |-> 0, opened |-> 0, dumped |-> 0]

Progress(w) ==
    CASE writers[w].pc = "ready" -> 0
      [] writers[w].pc = "loaded" -> 1
      [] writers[w].pc = "opened" -> 2
      [] OTHER -> 3

\* The time of the next step: the steps taken so far, plus one.
Stamp == Progress(1) + Progress(2) + 1

InitWriters ==
    /\ file \in WritableFiles
    /\ StoreIdle
    /\ HookIdle
    /\ OrchIdle
    /\ build = NoBuild
    /\ \E k1 \in CourseKeys, k2 \in CourseKeys :
          /\ k1 # k2
          /\ writers = <<NewWriter(1, k1), NewWriter(2, k2)>>

WriterDictFresh(f, k, y) == SetItem(EmptyMap, k, y)

\* Lines 29-30 of add_or_update_mapping: the dict loaded, with the new entry.
WriterDict(f, k, y) == SetItem(LoadMapping(f, "ok").val.map, k, y)

WriterLoad ==
    /\ \E w \in WriterIds :
          /\ writers[w].pc = "ready"
          /\ writers' = [writers EXCEPT
                ![w].pc = "loaded",
                ![w].mapping = WriterDict(file, writers[w].key, writers[w].step),
                ![w].loaded = Stamp]
    /\ UNCHANGED <<file, storeTrace, hookVars, orchVars, envVars, build>>

WriterOpen ==
    /\ \E w \in WriterIds :
          /\ writers[w].pc = "loaded"
          /\ file' = SaveOpen(file, "ok")
          /\ writers' = [writers EXCEPT ![w].pc = "opened", ![w].opened = Stamp]
    /\ UNCHANGED <<storeTrace, hookVars, orchVars, envVars, build>>

WriterDump ==
    /\ \E w \in WriterIds :
          /\ writers[w].pc = "opened"
          /\ file' = SaveDump(file, writers[w].mapping, "ok")
          /\ writers' = [writers EXCEPT ![w].pc = "done", ![w].dumped = Stamp]
    /\ UNCHANGED <<storeTrace, hookVars, orchVars, envVars, build>>

NextWriters == WriterLoad \/ WriterOpen \/ WriterDump

SpecWriters == InitWriters /\ [][NextWriters]_vars

\* Both upserts have returned.
BothDone == writers # <<>> /\ writers[1].pc = "done" /\ writers[2].pc = "done"

\* The store holds the entry writer w upserted.
Holds(w) ==
    /\ HasEntry(file, writers[w].key)
    /\ file.map[writers[w].key] = writers[w].step

C21_ReaderSeesPersisted ==
    [][(/\ pending' # pending
        /\ pc = "save_dump"
        /\ ~faults'
        /\ request'.ids[1] \in DOMAIN mapping
        /\ request'.ids[1] # UpsertKey(cur.id)) =>
           resp'.exit # "MappingNotFound"]_vars

\* C22: add_or_update_mapping(x, y) leaves every entry of the store other
\* than the one keyed str(x) present with its value, whatever the read
\* inside it and the write do.
C22_UpsertFrame ==
    [][(op'.name = "upsert" /\ file.kind = "object") =>
           \A k \in DOMAIN file.map :
               k # Str(op'.x) => (HasEntry(file', k) /\ file'.map[k] = file.map[k])]_vars

\* C23: on a store whose document is well formed but is no object (a list,
\* null), load_mapping returns a dict, and add_or_update_mapping and
\* get_riseup_step_id raise nothing.
C23_LoadReturnsMapping ==
    (op.name # "none" /\ file.kind = "nonobject") =>
        /\ op.raised = ""
        /\ (op.name = "load" => op.ret.kind = "dict")

\* C24: the handler's stages come in the order parse, lookup, decode,
\* upload.  A lookup is made only for a request with both fields; the
\* InvalidEncoding answer is given only after a lookup that resolved a step;
\* an upload call is made only after a lookup that resolved a step and a
\* decode that raised nothing, with the decoded bytes.  So a request with
\* both fields whose id the store (no file, a file json cannot parse, or an
\* object without the key) does not map, and whose zip is not valid base64,
\* is answered 2xx MappingNotFound, not InvalidEncoding, with no upload.
C24_StageOrder ==
    Answered =>
        /\ resp.lookups = 1 => BothFields
        /\ resp.exit = "InvalidEncoding" => (resp.lookups = 1 /\ resp.step # 0)
        /\ resp.uploads # <<>> =>
              /\ resp.lookups = 1
              /\ resp.step # 0
              /\ B64Decode(ReqZip).raised = ""
              /\ resp.uploads[1].bytes = B64Decode(ReqZip).bytes
        /\ resp.posts # <<>> => resp.uploads # <<>>
        /\ (/\ BothFields
            /\ file.kind \in {"absent", "badjson", "object"}
            /\ ~HasEntry(file, ReqKey)
            /\ ~ValidBase64(ReqZip))
              => /\ resp.exit = "MappingNotFound"
                 /\ Is2xx(resp.status)
                 /\ resp.uploads = <<>>

\* An unmapped id with a zip that b64decode would reject.
C24_Witness ==
    /\ Answered
    /\ BothFields
    /\ file = FileObject(EmptyMap)
    /\ B64Decode(ReqZip).raised = "binascii.Error"
    /\ resp.lookups = 1
    /\ resp.exit = "MappingNotFound"
    /\ resp.status = 200

\* C25: a descriptor with no id is counted as failed once, with no
\* creation call; a descriptor whose build returned no step id is counted as
\* failed once; in both cases the store and the callbacks due are left as
\* they were, no entry is written and no export request is sent.  The
\* upsert and the export are reached, and the store is written, only for a
\* descriptor that has an id and whose build went through create_scorm_step
\* and returned a step id.
CountedFailedOnce ==
    /\ cur'.result = "failed"
    /\ fail_count' = fail_count + 1
    /\ success_count' = success_count
    /\ skip_count' = skip_count
    /\ idx' = idx + 1
    /\ pc' = "loop"
    /\ file' = file
    /\ pending' = pending
    /\ ~cur'.upserted
    /\ cur'.exported = <<>>

MainAgain ==
    /\ pc \in {"done", "returned", "aborted", "crashed"}
    /\ now < MaxRuns - 1
    /\ now' = now + 1
    /\ pc' = "start"
    /\ catalog' = 0
    /\ idx' = 0
    /\ existing_mapping' = DictV(EmptyMap)
    /\ success_count' = 0
    /\ fail_count' = 0
    /\ skip_count' = 0
    /\ mapping' = EmptyMap
    /\ cur' = NoCur
    /\ pending' = {}
    /\ UNCHANGED <<file, storeTrace, riseup_client, hook_token, request, resp,
                   faults, unitVars>>

\* The runs are followed in the nominal environment: no read and no write
\* of the store fails.
NextRuns == (NextSync /\ ~faults') \/ MainAgain

SpecRuns == Init /\ [][NextRuns]_vars

\* The descriptor in hand is for course key k.
InHand(k) == cur.idx # 0 /\ Truthy(cur.id) /\ Str(cur.id) = k

\* C26: once the store holds an entry for a course, every later run in
\* which no read or write of the store has failed takes a descriptor of
\* that course through the skip branch only: it is counted as skipped, with
\* no creation call, no write of the store and no export request.
C26_LaterRunsSkip ==
    \A k \in CourseKeys : \A n \in 0..(MaxRuns - 2) :
        []((HasEntry(file, k) /\ now = n) =>
              []((now > n /\ ~faults /\ InHand(k)) =>
                    /\ cur.result = "skipped"
                    /\ cur.calls = <<>>
                    /\ ~cur.upserted
                    /\ cur.exported = <<>>))

\* A later run skips a course whose entry an earlier run wrote.
C26_Witness ==
    /\ now > 0
    /\ ~faults
    /\ cur.idx # 0
    /\ Truthy(cur.id)
    /\ cur.result = "skipped"
    /\ skip_count > 0
    /\ HasEntry(file, Str(cur.id))
    /\ file.map[Str(cur.id)] \in RunSteps

\* --------------------- SpecToken: the client's token cache over time
\* The receiver, configured, takes callbacks of mapped courses one after
\* the other while the clock moves on; each one that reaches the upload
\* makes one call of the Target LMS client.
InitToken ==
    /\ file = FileObject(FullMap)
    /\ StoreIdle
    /\ riseup_client = "client"
    /\ hook_token = NewClient
    /\ now = 0
    /\ request \in {Callback(k) : k \in CourseKeys}
    /\ resp = NoAnswer
    /\ OrchIdle
    /\ UnitIdle

\* time.time() moves on.
Tick ==
    /\ now < MaxTime
    /\ now' = now + 1
    /\ UNCHANGED <<file, storeTrace, riseup_client, hook_token, request, resp,
                   orchVars, envVars, unitVars>>

NextToken == HookDeliver \/ Tick

SpecToken == InitToken /\ [][NextToken]_vars

\* The cache holds no token the client would use at the time given.
NoUsableToken(cl, t) == cl.access_token = "" \/ t >= cl.token_expiry

\* The expiry of a token issued at time t.
IssuedExpiries(t) ==
    {t + tok.expires_in - 60 : tok \in {o \in TokenOutcomes : o.kind = "ok"}}

\* C27: on every call of the client, a token request is sent exactly when
\* the cache holds no token or the clock has reached the cached expiry; an
\* unexpired token is reused, the cache unchanged and the API call sent
\* with no token request; a token that is obtained is cached with expiry
\* issue time + expires_in - 60; when the token request fails the API call
\* is not sent, the error reaches the caller, the cache holds no usable
\* token, and after a RequestException it is cleared (no token, expiry 0).
\* A delivery that makes no call of the client leaves the cache alone.
C27_TokenCache ==
    [][now' = now =>
        /\ resp'.uploads = <<>> =>
              (hook_token' = hook_token /\ resp'.tokens = 0)
        /\ resp'.uploads # <<>> =>
              /\ resp'.tokens = (IF NoUsableToken(hook_token, now) THEN 1 ELSE 0)
              /\ ~NoUsableToken(hook_token, now) =>
                    (hook_token' = hook_token /\ Len(resp'.posts) = 1)
              /\ (NoUsableToken(hook_token, now) /\ resp'.posts # <<>>) =>
                    /\ hook_token'.access_token # ""
                    /\ hook_token'.token_expiry \in IssuedExpiries(now)
              /\ (NoUsableToken(hook_token, now) /\ resp'.posts = <<>>) =>
                    /\ resp'.upraised # ""
                    /\ Is5xx(resp'.status)
                    /\ NoUsableToken(hook_token', now)
                    /\ resp'.upraised = "RequestException" =>
                          hook_token' = NewClient]_vars

\* After the clock has moved, a call reuses the token cached before it.
C27_Witness ==
    /\ now > 0
    /\ resp.exit = "Uploaded"
    /\ resp.tokens = 0
    /\ Len(resp.posts) = 1
    /\ hook_token.access_token # ""
    /\ hook_token.token_expiry > now

====
